---- MODULE Spec2Model ----
(***************************************************************************)
(* Model of the request pipeline of package tmdb (src/tmdb.go): the Client *)
(* handle and its setters, the retry policy (shouldRetry, retryDuration),  *)
(* the two executors (Client.get, Client.request) and the error model      *)
(* (Client.decodeError, Error.Error).                                      *)
(*                                                                         *)
(* Durations are counted in seconds (time.Second is the unit).  Strings    *)
(* that the code parses are sequences of one-character strings; strings    *)
(* the code only stores, compares or formats are TLA+ strings.             *)
(***************************************************************************)
EXTENDS Integers, Sequences, FiniteSets, TLC

VARIABLES
    handle,   \* the *Client returned by Init: "nil" or "ptr"
    c,        \* the Client struct behind the pointer
    lastOp,   \* the last Init or SetSessionID invocation and what it returned
    call,     \* per caller: the executor call in progress
    probe     \* argument and result of a retry-policy function under test

vars == <<handle, c, lastOp, call, probe>>

(***************************************************************************)
(* Bounds of the model.                                                    *)
(***************************************************************************)
\* most sends (c.http.Do) one call may perform
MaxSends == 3
\* longest Retry-After value built from HeaderAlphabet
MaxHdrLen == 2
\* longest option value built from OptionAlphabet
MaxValLen == 2

\* the callers that may use the handle
Procs == {"p1", "p2"}

(***************************************************************************)
(* Program constants.                                                      *)
(***************************************************************************)
defaultRetryDuration == 5
defaultTimeout == 10
StatusOK == 200
StatusAccepted == 202
StatusNoContent == 204
StatusMultipleChoices == 300
StatusTooManyRequests == 429
MaxInt32 == 2147483647
MinInt32 == (-2147483647) - 1

(***************************************************************************)
(* strconv.ParseInt(s, 10, 32), as retryDuration uses it.                  *)
(***************************************************************************)
Digits == {"0", "1", "2", "3", "4", "5", "6", "7", "8", "9"}

DigitVal(ch) ==
    CASE ch = "0" -> 0 [] ch = "1" -> 1 [] ch = "2" -> 2 [] ch = "3" -> 3
      [] ch = "4" -> 4 [] ch = "5" -> 5 [] ch = "6" -> 6 [] ch = "7" -> 7
      [] ch = "8" -> 8 [] ch = "9" -> 9

\* The digits of s from position i on, accumulated on the negative side so
\* that a magnitude of 2^31 is still representable; "range" as soon as the
\* magnitude exceeds 2^31, "syntax" at the first character that is no digit.
RECURSIVE ParseDigits(_, _, _)
ParseDigits(s, i, n) ==
    IF i > Len(s) THEN [err |-> "nil", n |-> n]
    ELSE IF s[i] \notin Digits THEN [err |-> "syntax", n |-> 0]
    ELSE LET d == DigitVal(s[i]) IN
         IF n < -214748364 \/ (n = -214748364 /\ d > 8)
         THEN [err |-> "range", n |-> 0]
         ELSE ParseDigits(s, i + 1, n * 10 - d)

ParseInt32(s) ==
    IF s = <<>> THEN [err |-> "syntax", n |-> 0]
    ELSE LET neg  == s[1] = "-"
             rest == IF s[1] \in {"+", "-"} THEN Tail(s) ELSE s
             un   == IF rest = <<>> THEN [err |-> "syntax", n |-> 0]
                     ELSE ParseDigits(rest, 1, 0)
         IN  IF un.err # "nil" THEN un
             ELSE IF ~neg /\ un.n = MinInt32 THEN [err |-> "range", n |-> MaxInt32]
             ELSE [err |-> "nil", n |-> IF neg THEN un.n ELSE -un.n]

(***************************************************************************)
(* Retry policy.                                                           *)
(***************************************************************************)
\* http.Header.Get("Retry-After"): the value, or "" when the header is absent
HeaderGet(h) == IF h.has THEN h.val ELSE <<>>

NoHeader == [has |-> FALSE, val |-> <<>>]
Hdr(v) == [has |-> TRUE, val |-> v]

retryDuration(resp) ==
    LET retryTime == HeaderGet(resp.Header)
        parsed    == ParseInt32(retryTime)
    IN  IF retryTime = <<>> THEN defaultRetryDuration
        ELSE IF parsed.err # "nil" THEN defaultRetryDuration
        ELSE parsed.n

shouldRetry_only429(status) == status = StatusTooManyRequests

shouldRetry(status) ==
    status = StatusAccepted \/ status = StatusTooManyRequests

(***************************************************************************)
(* JSON bodies and encoding/json's Decoder.Decode into a struct.           *)
(***************************************************************************)
JAbsent == [t |-> "absent", s |-> "", b |-> FALSE, n |-> 0]
JStr(x) == [t |-> "string", s |-> x, b |-> FALSE, n |-> 0]
JBool(x) == [t |-> "bool", s |-> "", b |-> x, n |-> 0]
JNum(x) == [t |-> "number", s |-> "", b |-> FALSE, n |-> x]

Keys == {"status_message", "success", "status_code"}
NoFields == [k \in Keys |-> JAbsent]

\* kinds of response body: "empty" (zero bytes), "broken" (the read fails),
\* "malformed" (bytes that are no JSON), "null" (the JSON null), "object"
PlainBody(kind) == [kind |-> kind, fields |-> NoFields]
ObjectBody(m, s, code) ==
    [kind |-> "object",
     fields |-> [k \in Keys |-> CASE k = "status_message" -> m
                                  [] k = "success" -> s
                                  [] k = "status_code" -> code]]

\* type Error struct and type Response struct with their json tags
ErrorFields ==
    [StatusMessage |-> [key |-> "status_message", t |-> "string"],
     Success       |-> [key |-> "success", t |-> "bool"],
     StatusCode    |-> [key |-> "status_code", t |-> "number"]]
ResponseFields ==
    [StatusCode    |-> [key |-> "status_code", t |-> "number"],
     StatusMessage |-> [key |-> "status_message", t |-> "string"]]

ZeroError == [StatusMessage |-> "", Success |-> FALSE, StatusCode |-> 0]
ZeroResponse == [StatusCode |-> 0, StatusMessage |-> ""]

GoValue(v) ==
    IF v.t = "string" THEN v.s ELSE IF v.t = "bool" THEN v.b ELSE v.n

\* the JSON object of body stored into target: a field present with the
\* declared type is stored, a field absent from the body keeps the target's
\* value, a field of another type is skipped and reported
decodeObject(body, target, schema) ==
    LET got(f) == body.fields[schema[f].key]
        bad == \E f \in DOMAIN schema : got(f).t \notin {"absent", schema[f].t}
    IN  [err |-> IF bad THEN "type" ELSE "nil",
         v |-> [f \in DOMAIN schema |->
                  IF got(f).t = schema[f].t THEN GoValue(got(f))
                  ELSE target[f]]]

jsonDecode_eofOK(body, target, schema) ==
    CASE body.kind = "empty"     -> [err |-> "nil", v |-> target]
      [] body.kind = "broken"    -> [err |-> "read", v |-> target]
      [] body.kind = "malformed" -> [err |-> "syntax", v |-> target]
      [] body.kind = "null"      -> [err |-> "nil", v |-> target]
      [] body.kind = "object"    -> decodeObject(body, target, schema)

\* json.NewDecoder(body).Decode(target): io.EOF on an empty body, the read
\* error of a broken one, a syntax error on bytes that are no JSON; the JSON
\* null stores nothing; an object is stored field by field
jsonDecode(body, target, schema) ==
    CASE body.kind = "empty"     -> [err |-> "EOF", v |-> target]
      [] body.kind = "broken"    -> [err |-> "read", v |-> target]
      [] body.kind = "malformed" -> [err |-> "syntax", v |-> target]
      [] body.kind = "null"      -> [err |-> "nil", v |-> target]
      [] body.kind = "object"    -> decodeObject(body, target, schema)

(***************************************************************************)
(* Error values.                                                           *)
(***************************************************************************)
\* a Go error: kind "nil" is the nil error, kind "api" is a tmdb.Error value
\* (api holds its fields), every other kind is a plain error with a text
Err(kind, text) == [kind |-> kind, text |-> text, api |-> ZeroError]
NoErr == Err("nil", "")
APIErr(e) == [kind |-> "api", text |-> "", api |-> e]

BoolText(b) == IF b THEN "true" ELSE "false"

\* func (e Error) Error() string
ErrorString(e) ==
    "code: " \o ToString(e.StatusCode) \o " | success: " \o BoolText(e.Success)
        \o " | message: " \o e.StatusMessage

\* http.StatusText for the statuses the model uses
StatusText(code) ==
    CASE code = 200 -> "OK"
      [] code = 201 -> "Created"
      [] code = 202 -> "Accepted"
      [] code = 204 -> "No Content"
      [] code = 404 -> "Not Found"
      [] code = 429 -> "Too Many Requests"
      [] code = 500 -> "Internal Server Error"
      [] OTHER -> ""

\* an Error left over from an earlier call
StaleError == [StatusMessage |-> "limit", Success |-> TRUE, StatusCode |-> 25]

decodeError_stale(r) ==
    LET dec == jsonDecode(r.Body, StaleError, ErrorFields)
    IN  IF r.Body.kind = "broken" THEN Err("readbody", "could not read body response")
        ELSE IF r.Body.kind = "empty"
        THEN Err("emptybody", "[" \o ToString(r.StatusCode) \o "]: empty body "
                                  \o StatusText(r.StatusCode))
        ELSE IF dec.err # "nil" THEN Err("rawbody", "couldn't decode error")
        ELSE APIErr(dec.v)

decodeError_synth(r) ==
    LET dec == jsonDecode(r.Body, ZeroError, ErrorFields)
    IN  IF r.Body.kind = "broken" THEN Err("readbody", "could not read body response")
        ELSE IF r.Body.kind = "empty"
        THEN APIErr([StatusMessage |-> StatusText(r.StatusCode),
                     Success |-> FALSE, StatusCode |-> r.StatusCode])
        ELSE IF dec.err # "nil" THEN Err("rawbody", "couldn't decode error")
        ELSE APIErr(dec.v)

\* func (c *Client) decodeError(r *http.Response) error
decodeError(r) ==
    LET clientError == ZeroError
        dec == jsonDecode(r.Body, clientError, ErrorFields)
    IN  IF r.Body.kind = "broken" THEN Err("readbody", "could not read body response")
        ELSE IF r.Body.kind = "empty"
        THEN Err("emptybody", "[" \o ToString(r.StatusCode) \o "]: empty body "
                                  \o StatusText(r.StatusCode))
        ELSE IF dec.err # "nil" THEN Err("rawbody", "couldn't decode error")
        ELSE APIErr(dec.v)

(***************************************************************************)
(* The Client handle: Init and the setters.                                *)
(***************************************************************************)
\* the zero value of type Client
ZeroClient ==
    [apiKey |-> "", sessionID |-> "", autoRetry |-> FALSE,
     withContext |-> FALSE, http |-> [Timeout |-> 0]]

Op(op, arg, err) == [op |-> op, arg |-> arg, err |-> err]

\* func Init(apiKey string) (*Client, error), for the one handle of the model
InitClient(apiKey) ==
    /\ handle = "nil"
    /\ IF apiKey = ""
       THEN /\ lastOp' = Op("Init", apiKey, Err("usage", "APIKey is empty"))
            /\ UNCHANGED <<handle, c>>
       ELSE /\ handle' = "ptr"
            /\ c' = [ZeroClient EXCEPT !.apiKey = apiKey]
            /\ lastOp' = Op("Init", apiKey, NoErr)
    /\ UNCHANGED <<call, probe>>

SetSessionID_storeFirst(sid) ==
    /\ handle = "ptr"
    /\ c' = [c EXCEPT !.sessionID = sid]
    /\ lastOp' = Op("SetSessionID", sid,
                    IF sid = "" THEN Err("usage", "The SessionID is empty")
                    ELSE NoErr)
    /\ UNCHANGED <<handle, call, probe>>

\* func (c *Client) SetSessionID(sid string) error
SetSessionID(sid) ==
    /\ handle = "ptr"
    /\ IF sid = ""
       THEN /\ lastOp' = Op("SetSessionID", sid,
                            Err("usage", "The SessionID is empty"))
            /\ UNCHANGED c
       ELSE /\ c' = [c EXCEPT !.sessionID = sid]
            /\ lastOp' = Op("SetSessionID", sid, NoErr)
    /\ UNCHANGED <<handle, call, probe>>

\* func (c *Client) SetClientConfig(httpClient http.Client)
SetClientConfig(httpClient) ==
    /\ handle = "ptr"
    /\ c' = [c EXCEPT !.http = httpClient]
    /\ UNCHANGED <<handle, lastOp, call, probe>>

SetClientAutoRetry_toggle ==
    /\ handle = "ptr"
    /\ c' = [c EXCEPT !.autoRetry = ~c.autoRetry]
    /\ UNCHANGED <<handle, lastOp, call, probe>>

\* func (c *Client) SetClientAutoRetry()
SetClientAutoRetry ==
    /\ handle = "ptr"
    /\ c' = [c EXCEPT !.autoRetry = TRUE]
    /\ UNCHANGED <<handle, lastOp, call, probe>>

\* func (c *Client) SetClientWithContext()
SetClientWithContext ==
    /\ handle = "ptr"
    /\ c' = [c EXCEPT !.withContext = TRUE]
    /\ UNCHANGED <<handle, lastOp, call, probe>>

(***************************************************************************)
(* The executors.                                                          *)
(***************************************************************************)
\* a caller with no call in progress.  log has one entry per Do of the call:
\* its status (or transport failure) and c.autoRetry as the loop read it;
\* body is the body of the last response, target the value the caller's
\* decode target held when the call began, data what it holds now; req is
\* the *http.Request built before the loop, sent what the last Do put on the
\* wire, open the number of response bodies not yet closed
NoRequest ==
    [method |-> "", url |-> "", contentType |-> "", ctx |-> "none",
     body |-> "", drained |-> FALSE]
NoSent == [method |-> "", url |-> "", contentType |-> "", body |-> ""]

IdleCall ==
    [pc |-> "idle", kind |-> "none", method |-> "", url |-> "", sends |-> 0,
     log |-> <<>>, body |-> PlainBody("empty"), err |-> NoErr,
     target |-> ZeroResponse, data |-> ZeroResponse, sleepFor |-> 0,
     req |-> NoRequest, sent |-> NoSent, open |-> 0]

\* json.NewEncoder(bodyBytes).Encode(body) for a body struct with one
\* numeric field tagged "value"; Encode ends the text with a newline
jsonEncode(body) == "{\"value\":" \o ToString(body.value) \o "}\n"

\* http.NewRequest and http.NewRequestWithContext(context.Background(), ...):
\* both give the request the background context, which is never cancelled;
\* body is the encoded text behind the request's body reader ("" for nil)
NewRequest(method, url, body, withContext) ==
    [method |-> method, url |-> url,
     contentType |-> "application/json;charset=utf-8",
     ctx |-> IF withContext THEN "Background" ELSE "Background",
     body |-> body, drained |-> FALSE]

\* url.Parse inside http.NewRequest fails on a URL without a scheme
BadURL == ":bad"
GoodURL == "https://api.themoviedb.org/3/movie/1"
URLParses(url) == url # BadURL

\* what one c.http.Do(req) gives back: a transport error or a response
Failure(text) ==
    [fail |-> TRUE, neterr |-> text, StatusCode |-> 0, Header |-> NoHeader,
     Body |-> PlainBody("empty")]
Response(status, header, body) ==
    [fail |-> FALSE, neterr |-> "", StatusCode |-> status, Header |-> header,
     Body |-> body]

\* the result of one pass through the for-loop after Do returned res
Sleep(d, data) == [pc |-> "sleep", sleepFor |-> d, err |-> NoErr, data |-> data]
Done(err, data) == [pc |-> "done", sleepFor |-> 0, err |-> err, data |-> data]

Decoded(res, data) ==
    LET dec == jsonDecode(res.Body, data, ResponseFields)
    IN  IF dec.err # "nil"
        THEN Done(Err("decode", "could not decode the data: " \o dec.err), dec.v)
        ELSE Done(NoErr, dec.v)

getIter_noRetry(autoRetry, res, data) ==
    IF res.StatusCode = StatusNoContent THEN Done(NoErr, data)
    ELSE IF res.StatusCode # StatusOK THEN Done(decodeError(res), data)
    ELSE Decoded(res, data)

getIter_ignoreFlag(autoRetry, res, data) ==
    IF res.StatusCode = StatusTooManyRequests
    THEN Sleep(retryDuration(res), data)
    ELSE getIter_noRetry(autoRetry, res, data)

\* Client.get, lines 163-182
getIter(autoRetry, res, data) ==
    IF res.StatusCode = StatusTooManyRequests /\ autoRetry
    THEN Sleep(retryDuration(res), data)
    ELSE IF res.StatusCode = StatusNoContent THEN Done(NoErr, data)
    ELSE IF res.StatusCode # StatusOK THEN Done(decodeError(res), data)
    ELSE Decoded(res, data)

requestIter_ignoreFlag(autoRetry, res, data) ==
    IF shouldRetry(res.StatusCode)
    THEN Sleep(retryDuration(res), data)
    ELSE IF \/ res.StatusCode >= StatusMultipleChoices
            \/ res.StatusCode < StatusOK
            \/ res.StatusCode = StatusNoContent
    THEN Done(decodeError(res), data)
    ELSE Decoded(res, data)

\* Client.request, lines 230-249
requestIter(autoRetry, res, data) ==
    IF autoRetry /\ shouldRetry(res.StatusCode)
    THEN Sleep(retryDuration(res), data)
    ELSE IF \/ res.StatusCode >= StatusMultipleChoices
            \/ res.StatusCode < StatusOK
            \/ res.StatusCode = StatusNoContent
    THEN Done(decodeError(res), data)
    ELSE Decoded(res, data)

\* lines 137-139 and 198-200: the default timeout
WithTimeout(cl) ==
    IF cl.http.Timeout = 0 THEN [cl EXCEPT !.http.Timeout = defaultTimeout]
    ELSE cl

\* lines 132-154 and 188-222: the part of an executor before its loop
Enter(p, kind, method, url, body, data) ==
    /\ handle = "ptr"
    /\ call[p].pc = "idle"
    /\ LET started == [IdleCall EXCEPT !.kind = kind, !.method = method,
                                       !.url = url, !.target = data,
                                       !.data = data]
       IN  IF url = ""
           THEN /\ call' = [call EXCEPT ![p] =
                     [started EXCEPT !.pc = "done",
                                     !.err = Err("usage", "url field is empty")]]
                /\ UNCHANGED c
           ELSE /\ c' = WithTimeout(c)
                /\ call' = [call EXCEPT ![p] =
                     IF URLParses(url)
                     THEN [started EXCEPT !.pc = "send",
                              !.req = NewRequest(method, url, body,
                                                 c.withContext)]
                     ELSE [started EXCEPT !.pc = "done",
                              !.err = Err("newrequest", "could not fetch the url")]]
    /\ UNCHANGED <<handle, lastOp, probe>>

\* func (c *Client) get(url string, data interface{}) error, up to the loop
Get(p, url, data) == Enter(p, "get", "GET", url, "", data)

\* func (c *Client) request(url, body, method, data) error, up to the loop
Request(p, url, body, method, data) ==
    Enter(p, "request", method, url, jsonEncode(body), data)

Iter(kind, autoRetry, res, data) ==
    IF kind = "get" THEN getIter(autoRetry, res, data)
    ELSE requestIter(autoRetry, res, data)

AfterDo_retryFailure(kind, autoRetry, out, data) ==
    IF out.fail
    THEN IF autoRetry THEN Sleep(defaultRetryDuration, data)
         ELSE Done(Err("transport", out.neterr), data)
    ELSE Iter(kind, autoRetry, out, data)

\* lines 157-161 and 225-228, then the rest of the loop body
AfterDo(kind, autoRetry, out, data) ==
    IF out.fail THEN Done(Err("transport", out.neterr), data)
    ELSE Iter(kind, autoRetry, out, data)

\* what Do puts on the wire for req.  The body reader of req is read to its
\* end by the first Do and never reset by the loop; on a later Do the
\* transport either reads nothing from it or (rewound) takes a fresh reader
\* from req.GetBody, as net/http does on a reused connection.
Carried(req, rewound) ==
    [method |-> req.method, url |-> req.url, contentType |-> req.contentType,
     body |-> IF req.drained /\ ~rewound THEN "" ELSE req.body]

\* line 163 and line 230: defer res.Body.Close() runs when the function
\* returns, not when the loop continues
OpenBodies(open, out, r) ==
    IF r.pc = "done" THEN 0
    ELSE IF out.fail THEN open ELSE open + 1

\* one c.http.Do(req) of caller p's call and the loop body that follows it
Do(p, out, rewound) ==
    /\ call[p].pc = "send"
    /\ call[p].sends < MaxSends
    /\ rewound => call[p].req.drained
    /\ LET cp == call[p]
           r  == AfterDo(cp.kind, c.autoRetry, out, cp.data)
       IN  call' = [call EXCEPT ![p] =
                      [cp EXCEPT !.sends = cp.sends + 1,
                                 !.sent = Carried(cp.req, rewound),
                                 !.req.drained = (cp.req.body # ""),
                                 !.open = OpenBodies(cp.open, out, r),
                                 !.log = Append(cp.log,
                                            [status |-> out.StatusCode,
                                             fail |-> out.fail,
                                             autoRetry |-> c.autoRetry]),
                                 !.body = out.Body,
                                 !.pc = r.pc, !.sleepFor = r.sleepFor,
                                 !.err = r.err, !.data = r.data]]
    /\ UNCHANGED <<handle, c, lastOp, probe>>

Wake_giveUp(p) ==
    /\ call[p].pc = "sleep"
    /\ call' = [call EXCEPT ![p].pc = "done", ![p].sleepFor = 0,
                            ![p].err = Err("transport", "giving up")]
    /\ UNCHANGED <<handle, c, lastOp, probe>>

\* time.Sleep returns and the loop continues with the next send
Wake(p) ==
    /\ call[p].pc = "sleep"
    /\ call' = [call EXCEPT ![p].pc = "send", ![p].sleepFor = 0]
    /\ UNCHANGED <<handle, c, lastOp, probe>>

\* the caller takes the returned error and is free for its next call
Return(p) ==
    /\ call[p].pc = "done"
    /\ call' = [call EXCEPT ![p] = IdleCall]
    /\ UNCHANGED <<handle, c, lastOp, probe>>

(***************************************************************************)
(* Inputs and the specification of the handle in use.                      *)
(***************************************************************************)
APIKeys == {"", "key"}
SessionIDs == {"", "sid"}
HTTPClients == {[Timeout |-> 0], [Timeout |-> 30]}
URLs == {"", GoodURL, BadURL}
Methods == {"POST"}
\* the body a caller posts, e.g. a rating
ReqBodies == {[value |-> 8]}
\* the decode target the caller passes: a Response that already holds values
Targets == {[StatusCode |-> 7, StatusMessage |-> "old"]}
Statuses == {200, 202, 204, 429, 500}
Headers == {NoHeader, Hdr(<<"3">>)}
Messages == {JAbsent, JStr("fail")}
Successes == {JAbsent, JBool(TRUE)}
Codes == {JAbsent, JNum(500)}
Bodies ==
    {PlainBody(k) : k \in {"empty", "broken", "malformed", "null"}}
        \cup {ObjectBody(m, s, code) : m \in Messages, s \in Successes, code \in Codes}
        \cup {ObjectBody(JStr("fail"), JBool(FALSE), JNum(500)),
              ObjectBody(JStr("limit"), JAbsent, JNum(429)),
              ObjectBody(JStr("limit"), JAbsent, JNum(25)),
              ObjectBody(JStr("fail"), JBool(FALSE), JStr("500"))}
Outcomes ==
    {Failure("dial tcp: i/o timeout")}
        \cup {Response(st, h, b) : st \in Statuses, h \in Headers, b \in Bodies}

NoProbe == [fn |-> "none", status |-> 0, header |-> NoHeader, retry |-> FALSE,
            duration |-> 0]

Init ==
    /\ handle = "nil"
    /\ c = ZeroClient
    /\ lastOp = Op("none", "", NoErr)
    /\ call = [p \in Procs |-> IdleCall]
    /\ probe = NoProbe

\* callers use the handle one call at a time; as no two calls overlap, one
\* caller stands for all of them
Quiet(p) == \A q \in Procs \ {p} : call[q].pc = "idle"
Sequential == {"p1"}

Next ==
    \/ \E k \in APIKeys : InitClient(k)
    \/ \E sid \in SessionIDs : SetSessionID(sid)
    \/ \E h \in HTTPClients : SetClientConfig(h)
    \/ SetClientAutoRetry
    \/ SetClientWithContext
    \/ \E p \in Sequential, u \in URLs, d \in Targets : Quiet(p) /\ Get(p, u, d)
    \/ \E p \in Sequential, u \in URLs, b \in ReqBodies, m \in Methods,
          d \in Targets : Quiet(p) /\ Request(p, u, b, m, d)
    \/ \E p \in Sequential, out \in Outcomes, rewound \in BOOLEAN :
          Do(p, out, rewound)
    \/ \E p \in Sequential : Wake(p)
    \/ \E p \in Sequential : Return(p)

Spec == Init /\ [][Next]_vars

(***************************************************************************)
(* The retry policy on its own: shouldRetry and retryDuration applied to   *)
(* a status and a Retry-After header drawn from bounded sets.              *)
(***************************************************************************)
HeaderAlphabet == {"0", "3", "9", "-", "+", "x"}

RECURSIVE Strings(_)
Strings(n) ==
    IF n = 0 THEN {<<>>}
    ELSE LET shorter == Strings(n - 1)
         IN  shorter \cup {Append(s, ch) : s \in shorter, ch \in HeaderAlphabet}

\* values at the edges of the 32-bit range ParseInt is asked for
EdgeValues ==
    {<<"2", "1", "4", "7", "4", "8", "3", "6", "4", "7">>,
     <<"2", "1", "4", "7", "4", "8", "3", "6", "4", "8">>,
     <<"-", "2", "1", "4", "7", "4", "8", "3", "6", "4", "8">>,
     <<"-", "2", "1", "4", "7", "4", "8", "3", "6", "4", "9">>,
     <<"9", "9", "9", "9", "9", "9", "9", "9", "9", "9", "9">>,
     <<"0", "0", "0", "0", "0", "0", "0", "0", "0", "0", "1", "2">>}

ProbeHeaders == {NoHeader} \cup {Hdr(v) : v \in Strings(MaxHdrLen) \cup EdgeValues}
ProbeStatuses == 100..599

InitRetry ==
    /\ handle = "nil"
    /\ c = ZeroClient
    /\ lastOp = Op("none", "", NoErr)
    /\ call = [p \in Procs |-> IdleCall]
    /\ probe \in {[NoProbe EXCEPT !.status = st, !.header = h] :
                     st \in ProbeStatuses, h \in ProbeHeaders}

ShouldRetryStep ==
    /\ probe.fn = "none"
    /\ probe' = [probe EXCEPT !.fn = "shouldRetry",
                              !.retry = shouldRetry(probe.status)]
    /\ UNCHANGED <<handle, c, lastOp, call>>

RetryDurationStep ==
    /\ probe.fn = "none"
    /\ probe' = [probe EXCEPT !.fn = "retryDuration",
                    !.duration = retryDuration([Header |-> probe.header])]
    /\ UNCHANGED <<handle, c, lastOp, call>>

NextRetry == ShouldRetryStep \/ RetryDurationStep

SpecRetry == InitRetry /\ [][NextRetry]_vars

(***************************************************************************)
(* The retry loop under a transport that ends it.  Neither loop counts its *)
(* sends; the model follows a call for MaxSends sends, so the transport is *)
(* taken to give an answer that is not 202 or 429, or to fail, by then.    *)
(* c.http.Do returns (the transport timeout is never 0 after lines 137-139 *)
(* and 198-200) and time.Sleep returns, so both steps are weakly fair.     *)
(***************************************************************************)
LiveBodies ==
    {PlainBody("empty"), ObjectBody(JStr("limit"), JAbsent, JNum(429))}
LiveOutcomes ==
    {Failure("dial tcp: i/o timeout")}
        \cup {Response(st, h, b) : st \in Statuses, h \in Headers, b \in LiveBodies}

Ending(out) ==
    out.fail \/ out.StatusCode \notin {StatusAccepted, StatusTooManyRequests}

DoLive(p, out, rewound) ==
    /\ call[p].sends = MaxSends - 1 => Ending(out)
    /\ Do(p, out, rewound)

InitLive ==
    /\ handle = "ptr"
    /\ c = [ZeroClient EXCEPT !.apiKey = "key"]
    /\ lastOp = Op("Init", "key", NoErr)
    /\ call = [p \in Procs |-> IdleCall]
    /\ probe = NoProbe

NextLive ==
    \/ SetClientAutoRetry
    \/ \E p \in Sequential, u \in URLs, d \in Targets : Get(p, u, d)
    \/ \E p \in Sequential, u \in URLs, b \in ReqBodies, m \in Methods,
          d \in Targets : Request(p, u, b, m, d)
    \/ \E p \in Sequential, out \in LiveOutcomes, rewound \in BOOLEAN :
          DoLive(p, out, rewound)
    \/ \E p \in Sequential : Wake(p)
    \/ \E p \in Sequential : Return(p)

Fairness ==
    \A p \in Sequential :
        /\ WF_vars(\E out \in LiveOutcomes, rewound \in BOOLEAN :
                      DoLive(p, out, rewound))
        /\ WF_vars(Wake(p))

SpecLive == InitLive /\ [][NextLive]_vars /\ Fairness

(***************************************************************************)
(* Two callers on one handle with no setter called meanwhile.  The entry   *)
(* of get and request is taken one handle access at a time: the read of    *)
(* c.http.Timeout, its write, the read of c.withContext, then the loop.    *)
(***************************************************************************)
ConcOutcomes ==
    {Response(StatusOK, NoHeader, ObjectBody(JStr("limit"), JAbsent, JNum(429))),
     Response(StatusTooManyRequests, NoHeader, PlainBody("empty"))}

\* lines 133-135 and 189-196: the url check, before any access to c
Begin(p, kind, method, url, body, data) ==
    /\ handle = "ptr"
    /\ call[p].pc = "idle"
    /\ LET started == [IdleCall EXCEPT !.kind = kind, !.method = method,
                                       !.url = url, !.target = data,
                                       !.data = data, !.req.body = body]
       IN  call' = [call EXCEPT ![p] =
                      IF url = ""
                      THEN [started EXCEPT !.pc = "done", !.req = NoRequest,
                               !.err = Err("usage", "url field is empty")]
                      ELSE [started EXCEPT !.pc = "rdTimeout"]]
    /\ UNCHANGED <<handle, c, lastOp, probe>>

\* line 137 and line 198: if c.http.Timeout == 0
ReadTimeout(p) ==
    /\ call[p].pc = "rdTimeout"
    /\ call' = [call EXCEPT ![p].pc =
                  IF c.http.Timeout = 0 THEN "wrTimeout" ELSE "build"]
    /\ UNCHANGED <<handle, c, lastOp, probe>>

\* line 138 and line 199: c.http.Timeout = time.Second * 10
WriteTimeout(p) ==
    /\ call[p].pc = "wrTimeout"
    /\ c' = [c EXCEPT !.http.Timeout = defaultTimeout]
    /\ call' = [call EXCEPT ![p].pc = "build"]
    /\ UNCHANGED <<handle, lastOp, probe>>

\* lines 141-154 and 205-222: the request is built, with c.withContext read
Build(p) ==
    /\ call[p].pc = "build"
    /\ LET cp == call[p]
       IN  call' = [call EXCEPT ![p] =
                      IF URLParses(cp.url)
                      THEN [cp EXCEPT !.pc = "send",
                               !.req = NewRequest(cp.method, cp.url,
                                                  cp.req.body, c.withContext)]
                      ELSE [cp EXCEPT !.pc = "done", !.req = NoRequest,
                               !.err = Err("newrequest", "could not fetch the url")]]
    /\ UNCHANGED <<handle, c, lastOp, probe>>

\* the handle fields the next step of a call at pc reads and writes
Reads(pc) ==
    CASE pc = "rdTimeout" -> {"http.Timeout"}
      [] pc = "build" -> {"withContext"}
      [] pc = "send" -> {"http.Timeout", "autoRetry"}
      [] OTHER -> {}
Writes(pc) == IF pc = "wrTimeout" THEN {"http.Timeout"} ELSE {}

InitConc ==
    /\ handle = "ptr"
    /\ c \in {[ZeroClient EXCEPT !.apiKey = "key", !.autoRetry = a,
                                 !.withContext = w, !.http = h] :
                a \in BOOLEAN, w \in BOOLEAN, h \in HTTPClients}
    /\ lastOp = Op("Init", "key", NoErr)
    /\ call = [p \in Procs |-> IdleCall]
    /\ probe = NoProbe

NextConc ==
    \E p \in Procs :
        \/ \E u \in URLs, d \in Targets : Begin(p, "get", "GET", u, "", d)
        \/ \E u \in URLs, b \in ReqBodies, m \in Methods, d \in Targets :
              Begin(p, "request", m, u, jsonEncode(b), d)
        \/ ReadTimeout(p)
        \/ WriteTimeout(p)
        \/ Build(p)
        \/ \E out \in ConcOutcomes, rewound \in BOOLEAN : Do(p, out, rewound)
        \/ Wake(p)
        \/ Return(p)

SpecConc == InitConc /\ [][NextConc]_vars

(***************************************************************************)
(* Option formatting: Client.fmtOptions and url.QueryEscape.  Keys and     *)
(* values are sequences of characters; the order in which range visits a   *)
(* Go map is unspecified, so it is an input of the function.               *)
(***************************************************************************)
HexDigits == <<"0", "1", "2", "3", "4", "5", "6", "7", "8", "9",
               "A", "B", "C", "D", "E", "F">>

\* the bytes url.QueryEscape leaves as they are
Unreserved ==
    {"a", "b", "c", "d", "e", "f", "g", "h", "i", "j", "k", "l", "m", "n", "o",
     "p", "q", "r", "s", "t", "u", "v", "w", "x", "y", "z"}
        \cup Digits \cup {"-", "_", ".", "~"}

\* ASCII codes of the other bytes the model uses
CharCode(ch) ==
    CASE ch = " " -> 32 [] ch = "#" -> 35 [] ch = "%" -> 37 [] ch = "&" -> 38
      [] ch = "+" -> 43 [] ch = "/" -> 47 [] ch = "=" -> 61 [] ch = "?" -> 63

escapeChar_pct20(ch) ==
    IF ch \in Unreserved THEN <<ch>>
    ELSE <<"%", HexDigits[(CharCode(ch) \div 16) + 1],
                HexDigits[(CharCode(ch) % 16) + 1]>>

\* one byte under url.QueryEscape: a space becomes "+", every other byte
\* that is not unreserved becomes %XX
escapeChar(ch) ==
    IF ch \in Unreserved THEN <<ch>>
    ELSE IF ch = " " THEN <<"+">>
    ELSE <<"%", HexDigits[(CharCode(ch) \div 16) + 1],
                HexDigits[(CharCode(ch) % 16) + 1]>>

RECURSIVE QueryEscape(_)
QueryEscape(v) ==
    IF v = <<>> THEN <<>> ELSE escapeChar(Head(v)) \o QueryEscape(Tail(v))

\* the for-range loop of fmtOptions from position i of the visiting order
RECURSIVE fmtOptionsLoop(_, _, _, _)
fmtOptionsLoop(urlOptions, order, i, options) ==
    IF i > Len(order) THEN options
    ELSE fmtOptionsLoop(urlOptions, order, i + 1,
            options \o <<"&">> \o order[i] \o <<"=">>
                    \o QueryEscape(urlOptions[order[i]]))

\* func (c *Client) fmtOptions(urlOptions map[string]string) string
fmtOptions(urlOptions, order) ==
    IF Cardinality(DOMAIN urlOptions) > 0
    THEN fmtOptionsLoop(urlOptions, order, 1, <<>>)
    ELSE <<>>

\* the orders in which a range loop may visit the keys
Orders(keys) ==
    {o \in [1..Cardinality(keys) -> keys] :
        \A i, j \in 1..Cardinality(keys) : o[i] = o[j] => i = j}

OptionAlphabet == {"1", " ", "&", "x"}

RECURSIVE Words(_, _)
Words(alphabet, n) ==
    IF n = 0 THEN {<<>>}
    ELSE LET shorter == Words(alphabet, n - 1)
         IN  shorter \cup {Append(w, ch) : w \in shorter, ch \in alphabet}

OptionKeys == {<<"a">>, <<"b">>}
OptionValues == Words(OptionAlphabet, MaxValLen) \cup {<<"1", " ", "2">>}
OptionMaps ==
    UNION {[keys -> OptionValues] : keys \in SUBSET OptionKeys}

InitOptions ==
    /\ handle = "nil"
    /\ c = ZeroClient
    /\ lastOp = Op("none", "", NoErr)
    /\ call = [p \in Procs |-> IdleCall]
    /\ probe \in {[fn |-> "none", options |-> m, out |-> <<>>] : m \in OptionMaps}

FmtOptionsStep ==
    /\ probe.fn = "none"
    /\ \E order \in Orders(DOMAIN probe.options) :
          probe' = [probe EXCEPT !.fn = "fmtOptions",
                                 !.out = fmtOptions(probe.options, order)]
    /\ UNCHANGED <<handle, c, lastOp, call>>

NextOptions == FmtOptionsStep

SpecOptions == InitOptions /\ [][NextOptions]_vars

(***************************************************************************)
(* Vocabulary of the properties.                                           *)
(***************************************************************************)
InCall(p) == call[p].kind \in {"get", "request"}
Sent(p) == Len(call[p].log)
Last(p) == call[p].log[Len(call[p].log)]

\* entry i of p's log is a response (not a transport failure) with status st
Answered(p, i, st) == ~call[p].log[i].fail /\ call[p].log[i].status = st

\* the send of entry i was followed, or is about to be followed, by another
Resent(p, i) == i < Sent(p) \/ call[p].pc \in {"sleep", "send"}

\* a body that is a JSON object whose fields named in schema, where present,
\* have the declared JSON type
WellFormed(body, schema) ==
    /\ body.kind = "object"
    /\ \A f \in DOMAIN schema :
          body.fields[schema[f].key].t \in {"absent", schema[f].t}

\* a body that holds no JSON value a struct can take
Undecodable(body, schema) ==
    \/ body.kind \in {"empty", "broken", "malformed"}
    \/ /\ body.kind = "object"
       /\ \E f \in DOMAIN schema :
             body.fields[schema[f].key].t \notin {"absent", schema[f].t}

\* the envelope fields as written in the body, zero where absent
EnvelopeMessage(body) ==
    IF body.fields["status_message"].t = "string"
    THEN body.fields["status_message"].s ELSE ""
EnvelopeSuccess(body) ==
    IF body.fields["success"].t = "bool" THEN body.fields["success"].b ELSE FALSE
EnvelopeCode(body) ==
    IF body.fields["status_code"].t = "number"
    THEN body.fields["status_code"].n ELSE 0

(***************************************************************************)
(* C1: Init(""), SetSessionID(""), get("", _) and request("", _, _, _)     *)
(* return a usage error, perform no send and leave the handle unchanged.   *)
(***************************************************************************)
C1_EmptyInputStep ==
    /\ (/\ lastOp' # lastOp
        /\ lastOp'.op \in {"Init", "SetSessionID"}
        /\ lastOp'.arg = "")
          => /\ lastOp'.err.kind = "usage"
             /\ handle' = handle /\ c' = c /\ call' = call
    /\ \A p \in Procs :
          (call[p].pc = "idle" /\ InCall(p)' /\ call'[p].url = "")
             => /\ call'[p].pc = "done"
                /\ call'[p].err.kind = "usage"
                /\ call'[p].sends = 0 /\ call'[p].log = <<>>
                /\ handle' = handle /\ c' = c
                /\ \A q \in Procs \ {p} : call'[q] = call[q]

C1_EmptyInputs == [][C1_EmptyInputStep]_vars

C1_Witness ==
    /\ lastOp.op = "SetSessionID" /\ lastOp.arg = "" /\ lastOp.err.kind = "usage"
    /\ c.sessionID = "sid"
    /\ c.http.Timeout = 0
    /\ \E p \in Procs : call[p].pc = "done" /\ call[p].kind = "request"
                        /\ call[p].url = ""

(***************************************************************************)
(* C2: with auto-retry enabled, k >= 1 responses 429 followed by a 200     *)
(* with a decodable body make k+1 sends and a success whose target is      *)
(* decoded from the last body; after each of the 429s the call goes on.    *)
(***************************************************************************)
C2_RetryThenSuccess ==
    \A p \in Procs :
       LET cp == call[p]
           n  == Len(cp.log)
       IN  (/\ InCall(p) /\ n >= 1 /\ cp.log[1].autoRetry
            /\ \A i \in 1..(n - 1) : Answered(p, i, StatusTooManyRequests))
              => /\ Answered(p, n, StatusTooManyRequests)
                    => /\ cp.pc \in {"sleep", "send"}
                       /\ cp.sends = n
                       /\ cp.err = NoErr /\ cp.data = cp.target
                 /\ (n >= 2 /\ Answered(p, n, StatusOK)
                       /\ ~Undecodable(cp.body, ResponseFields))
                    => /\ cp.pc = "done"
                       /\ cp.sends = n
                       /\ cp.err = NoErr
                       /\ cp.data = jsonDecode(cp.body, cp.target, ResponseFields).v

C2_Witness ==
    /\ \E p \in Procs :
          /\ call[p].kind = "get" /\ call[p].pc = "done" /\ call[p].sends = 3
          /\ Answered(p, 1, 429) /\ Answered(p, 2, 429) /\ Answered(p, 3, 200)
          /\ call[p].err = NoErr
          /\ call[p].data = [StatusCode |-> 500, StatusMessage |-> "fail"]
    /\ c.autoRetry

(***************************************************************************)
(* C3, as claimed: with auto-retry disabled, a first response 429 makes    *)
(* one send and returns an API Error with code 429, whatever its body.     *)
(***************************************************************************)
First429NoRetry(p) ==
    /\ InCall(p) /\ Sent(p) >= 1
    /\ Answered(p, 1, StatusTooManyRequests) /\ ~call[p].log[1].autoRetry

C3_Claimed ==
    \A p \in Procs :
       First429NoRetry(p)
          => /\ call[p].pc = "done" /\ call[p].sends = 1
             /\ call[p].err.kind = "api"
             /\ call[p].err.api.StatusCode = 429

(***************************************************************************)
(* C3, amended: with auto-retry disabled, a first response 429 makes one   *)
(* send and returns an error: an API Error whose code is the status_code   *)
(* of the body's envelope (429 when the envelope says 429) if the body is  *)
(* a decodable envelope, a plain error if it is empty or undecodable.      *)
(***************************************************************************)
C3_Error429 ==
    \A p \in Procs :
       First429NoRetry(p)
          => /\ call[p].pc = "done" /\ call[p].sends = 1
             /\ call[p].err.kind # "nil"
             /\ WellFormed(call[p].body, ErrorFields)
                   => /\ call[p].err.kind = "api"
                      /\ call[p].err.api.StatusCode = EnvelopeCode(call[p].body)
             /\ Undecodable(call[p].body, ErrorFields)
                   => call[p].err.kind \notin {"nil", "api"}

C3_Witness ==
    \E p \in Procs :
       /\ First429NoRetry(p) /\ call[p].pc = "done" /\ call[p].sends = 1
       /\ call[p].err.kind = "api" /\ call[p].err.api.StatusCode = 429
       /\ ~c.autoRetry

(***************************************************************************)
(* C4, as claimed: with auto-retry disabled, a response 202 or 429 makes   *)
(* the call return an error after that single send, for get and request.   *)
(***************************************************************************)
RetryableNoRetry(p) ==
    /\ InCall(p) /\ Sent(p) >= 1
    /\ ~Last(p).fail /\ ~Last(p).autoRetry
    /\ Last(p).status \in {StatusAccepted, StatusTooManyRequests}

C4_Claimed ==
    \A p \in Procs :
       RetryableNoRetry(p)
          => /\ call[p].pc = "done" /\ call[p].sends = 1
             /\ call[p].err.kind # "nil"

(***************************************************************************)
(* C4, amended: with auto-retry disabled, a response 429 makes get and     *)
(* request return an error after that single send, and so does a 202 for   *)
(* get; request takes a 202 as a success status: it returns after that     *)
(* single send, with success when the body decodes into the target and     *)
(* with a decode error otherwise.                                          *)
(***************************************************************************)
C4_NoRetryWhenDisabled ==
    \A p \in Procs :
       RetryableNoRetry(p)
          => /\ call[p].pc = "done" /\ call[p].sends = 1
             /\ (Last(p).status = StatusTooManyRequests \/ call[p].kind = "get")
                   => call[p].err.kind \notin {"nil", "decode"}
             /\ (Last(p).status = StatusAccepted /\ call[p].kind = "request")
                   => /\ call[p].err.kind \in {"nil", "decode"}
                      /\ call[p].err.kind = "decode"
                            <=> Undecodable(call[p].body, ResponseFields)

C4_Witness ==
    \E p \in Procs :
       /\ RetryableNoRetry(p) /\ call[p].kind = "request"
       /\ Last(p).status = StatusAccepted
       /\ call[p].pc = "done" /\ call[p].err = NoErr
       /\ call[p].data = [StatusCode |-> 500, StatusMessage |-> "fail"]

(***************************************************************************)
(* C5: with auto-retry enabled, get and request re-send after exactly the  *)
(* responses whose status is 202 or 429.                                   *)
(***************************************************************************)
C5_SameRetrySet ==
    \A p \in Procs :
       \A i \in 1..Sent(p) :
          (InCall(p) /\ ~call[p].log[i].fail /\ call[p].log[i].autoRetry)
             => (Resent(p, i)
                   <=> call[p].log[i].status \in {StatusAccepted, StatusTooManyRequests})

(***************************************************************************)
(* C6: shouldRetry(status) is true exactly for 202 and 429.                *)
(***************************************************************************)
C6_ShouldRetry ==
    probe.fn = "shouldRetry" => (probe.retry <=> probe.status \in {202, 429})

C6_Witness ==
    probe.fn = "shouldRetry" /\ probe.status = 202 /\ probe.retry

(***************************************************************************)
(* C7: retryDuration is the 5-second default when Retry-After is absent or *)
(* is not a non-negative integer, that many seconds otherwise, and so      *)
(* never negative.                                                         *)
(***************************************************************************)
C7_RetryDuration ==
    probe.fn = "retryDuration"
       => LET v == HeaderGet(probe.header)
              parsed == ParseInt32(v)
              nonNegative == v # <<>> /\ parsed.err = "nil" /\ parsed.n >= 0
          IN  /\ probe.duration = IF nonNegative THEN parsed.n ELSE 5
              /\ probe.duration >= 0

(***************************************************************************)
(* C8: a transport failure of a send ends the call with an error and no    *)
(* send of that call follows it, also after retried responses.             *)
(***************************************************************************)
C8_TransportFailureEnds ==
    \A p \in Procs :
       \A i \in 1..Sent(p) :
          (InCall(p) /\ call[p].log[i].fail)
             => /\ i = Sent(p)
                /\ call[p].pc = "done"
                /\ call[p].sends = i
                /\ call[p].err.kind = "transport"

C8_Witness ==
    \E p \in Procs :
       /\ call[p].kind = "request" /\ Sent(p) = 2
       /\ Answered(p, 1, StatusTooManyRequests) /\ call[p].log[1].autoRetry
       /\ call[p].log[2].fail /\ call[p].pc = "done"
       /\ call[p].err.kind = "transport"

(***************************************************************************)
(* C9: a response 200 with an empty or undecodable body makes get and      *)
(* request return a decode error, never success.                           *)
(***************************************************************************)
C9_EmptyBodyIsError ==
    \A p \in Procs :
       (/\ InCall(p) /\ Sent(p) >= 1 /\ Answered(p, Sent(p), StatusOK)
        /\ Undecodable(call[p].body, ResponseFields))
          => /\ call[p].pc = "done"
             /\ call[p].err.kind = "decode"

C9_Witness ==
    \E p \in Procs :
       /\ call[p].kind = "request" /\ Sent(p) = 1 /\ Answered(p, 1, StatusOK)
       /\ call[p].body.kind = "empty"
       /\ call[p].pc = "done" /\ call[p].err.kind = "decode"

(***************************************************************************)
(* C10: for a non-success response whose body is a well-formed envelope    *)
(* {status_message: m, success: s, status_code: c} the call returns an API *)
(* Error with exactly m, s and c, absent fields being zero values, whose   *)
(* string form is "code: c | success: s | message: m".                     *)
(***************************************************************************)
NonSuccessEnvelope(p) ==
    /\ InCall(p) /\ Sent(p) >= 1 /\ call[p].pc = "done"
    /\ ~Last(p).fail /\ Last(p).status >= StatusMultipleChoices
    /\ WellFormed(call[p].body, ErrorFields)

C10_EnvelopeDecoded ==
    \A p \in Procs :
       NonSuccessEnvelope(p)
          => LET b == call[p].body
                 e == call[p].err
             IN  /\ e.kind = "api"
                 /\ e.api.StatusMessage = EnvelopeMessage(b)
                 /\ e.api.Success = EnvelopeSuccess(b)
                 /\ e.api.StatusCode = EnvelopeCode(b)
                 /\ ErrorString(e.api) =
                       "code: " \o ToString(EnvelopeCode(b))
                          \o " | success: "
                          \o (IF EnvelopeSuccess(b) THEN "true" ELSE "false")
                          \o " | message: " \o EnvelopeMessage(b)
                 /\ (b = ObjectBody(JStr("fail"), JBool(FALSE), JNum(500)))
                       => ErrorString(e.api)
                             = "code: 500 | success: false | message: fail"

C10_Witness ==
    \E p \in Procs :
       /\ NonSuccessEnvelope(p) /\ Last(p).status = 500
       /\ call[p].body = ObjectBody(JStr("fail"), JBool(FALSE), JNum(500))
       /\ call[p].err = APIErr([StatusMessage |-> "fail", Success |-> FALSE,
                                StatusCode |-> 500])

(***************************************************************************)
(* C11, as claimed: every error returned for a non-success status is an    *)
(* API Error value carrying the status code, also when the body is empty   *)
(* or is no decodable envelope.                                            *)
(***************************************************************************)
NonSuccessDone(p) ==
    /\ InCall(p) /\ Sent(p) >= 1 /\ call[p].pc = "done"
    /\ ~Last(p).fail /\ Last(p).status >= StatusMultipleChoices

C11_Claimed ==
    \A p \in Procs :
       NonSuccessDone(p)
          => /\ call[p].err.kind = "api"
             /\ call[p].err.api.StatusCode = Last(p).status

(***************************************************************************)
(* C11, amended: an error returned for a non-success status is an API      *)
(* Error value only when the body is a decodable envelope (or the JSON     *)
(* null), and its code is then the envelope's status_code, not the HTTP    *)
(* status; for an empty body it is a plain error whose text carries the    *)
(* HTTP status code and its standard status text; for an unreadable or     *)
(* undecodable body it is a plain diagnostic error.                        *)
(***************************************************************************)
C11_ErrorShapes ==
    \A p \in Procs :
       NonSuccessDone(p)
          => LET b == call[p].body
                 e == call[p].err
             IN  /\ e.kind # "nil"
                 /\ (b.kind = "null" \/ WellFormed(b, ErrorFields))
                       => /\ e.kind = "api"
                          /\ e.api.StatusCode = EnvelopeCode(b)
                 /\ b.kind = "empty"
                       => /\ e.kind = "emptybody" /\ e.api = ZeroError
                          /\ Last(p).status = 500
                                => e.text = "[500]: empty body Internal Server Error"
                          /\ Last(p).status = 429
                                => e.text = "[429]: empty body Too Many Requests"
                 /\ (b.kind # "empty" /\ Undecodable(b, ErrorFields))
                       => /\ e.kind \in {"readbody", "rawbody"}
                          /\ e.api = ZeroError

C11_Witness ==
    \E p \in Procs :
       /\ NonSuccessDone(p) /\ Last(p).status = 500
       /\ call[p].body.kind = "empty"
       /\ call[p].err.text = "[500]: empty body Internal Server Error"

(***************************************************************************)
(* C13: every response body is released after its use on every exit path: *)
(* the body of a retried response is released before the next send, at     *)
(* most one body of a call is unreleased at any moment, and none once the  *)
(* call has returned.                                                      *)
(***************************************************************************)
C13_BodiesReleased ==
    \A p \in Procs :
       /\ call[p].open <= 1
       /\ call[p].pc = "send" => call[p].open = 0
       /\ call[p].pc \in {"idle", "done"} => call[p].open = 0

(***************************************************************************)
(* C14: the flags start false on a constructed handle; once a flag is set  *)
(* it is true in every later state and setting it again changes nothing;   *)
(* the API key is the non-empty value given to Init in every state.        *)
(***************************************************************************)
C14_Step ==
    /\ (handle = "nil" /\ handle' = "ptr")
          => /\ ~c'.autoRetry /\ ~c'.withContext
             /\ c'.apiKey = lastOp'.arg /\ c'.apiKey # ""
    /\ handle = "ptr"
          => /\ handle' = "ptr"
             /\ c'.apiKey = c.apiKey
             /\ c.autoRetry => c'.autoRetry
             /\ c.withContext => c'.withContext
    /\ (c.autoRetry /\ SetClientAutoRetry) => UNCHANGED vars
    /\ (c.withContext /\ SetClientWithContext) => UNCHANGED vars

C14_FlagsAndKey ==
    /\ [](handle = "ptr" => c.apiKey = "key")
    /\ [][C14_Step]_vars

C14_Witness ==
    /\ handle = "ptr" /\ c.apiKey = "key"
    /\ c.autoRetry /\ c.withContext /\ c.sessionID = "sid"
    /\ \E p \in Procs : call[p].pc = "done" /\ call[p].sends = 2

(***************************************************************************)
(* C16: every executor call, whether it succeeds or fails, leaves the      *)
(* stored fields of the handle (key, session id, flags, transport          *)
(* configuration with its timeout) as they were.                           *)
(***************************************************************************)
C16_ExecutorsLeaveHandle ==
    [][(call' # call) => (c' = c /\ handle' = handle)]_vars

(***************************************************************************)
(* C18: a response 204 ends a get and a request alike as a success with    *)
(* no decoding: no error, the decode target untouched.                     *)
(***************************************************************************)
C18_NoContentSucceeds ==
    \A p \in Procs :
       (InCall(p) /\ Sent(p) >= 1 /\ Answered(p, Sent(p), StatusNoContent))
          => /\ call[p].pc = "done"
             /\ call[p].err = NoErr
             /\ call[p].data = call[p].target

(***************************************************************************)
(* C19: every send of a request, re-sends under auto-retry included,       *)
(* carries the method, the URL, the content-type header and the complete   *)
(* JSON-encoded body of the first send.                                    *)
(***************************************************************************)
C19_ResendCarriesBody ==
    \A p \in Procs :
       (call[p].kind = "request" /\ call[p].sends >= 1)
          => /\ call[p].sent.method = call[p].method
             /\ call[p].sent.url = call[p].url
             /\ call[p].sent.contentType = "application/json;charset=utf-8"
             /\ call[p].sent.body = "{\"value\":8}\n"

(***************************************************************************)
(* C12, as claimed: fmtOptions gives every entry once as "&k=" and the     *)
(* escaped value, the empty string for an empty mapping, and escapes a     *)
(* space as %20: {"a":"1 2","b":"x"} gives "&a=1%202" and "&b=x" once each.*)
(***************************************************************************)
Occurrences(sub, str) ==
    Cardinality({i \in 1..(Len(str) - Len(sub) + 1) :
                    SubSeq(str, i, i + Len(sub) - 1) = sub})

ExampleOptions ==
    [k \in OptionKeys |-> IF k = <<"a">> THEN <<"1", " ", "2">> ELSE <<"x">>]

C12_Claimed ==
    probe.fn = "fmtOptions"
       => /\ DOMAIN probe.options = {} => probe.out = <<>>
          /\ probe.options = ExampleOptions
                => /\ Occurrences(<<"&", "a", "=", "1", "%", "2", "0", "2">>,
                                  probe.out) = 1
                   /\ Occurrences(<<"&", "b", "=", "x">>, probe.out) = 1

(***************************************************************************)
(* C12, amended: fmtOptions gives, in some order, every entry exactly once *)
(* as "&k=" followed by the query-escaped value and nothing else, and the  *)
(* empty string for an empty mapping; a space in a value is escaped as     *)
(* "+", so {"a":"1 2","b":"x"} gives "&a=1+2" and "&b=x" once each.        *)
(***************************************************************************)
Piece(k, v) == <<"&">> \o k \o <<"=">> \o QueryEscape(v)

RECURSIVE TotalLength(_, _)
TotalLength(options, keys) ==
    IF keys = {} THEN 0
    ELSE LET k == CHOOSE x \in keys : TRUE
         IN  Len(Piece(k, options[k])) + TotalLength(options, keys \ {k})

C12_FmtOptions ==
    probe.fn = "fmtOptions"
       => /\ DOMAIN probe.options = {} => probe.out = <<>>
          /\ \A k \in DOMAIN probe.options :
                Occurrences(Piece(k, probe.options[k]), probe.out) = 1
          /\ Len(probe.out) = TotalLength(probe.options, DOMAIN probe.options)
          /\ Occurrences(<<"&">>, probe.out) = Cardinality(DOMAIN probe.options)
          /\ Occurrences(<<" ">>, probe.out) = 0
          /\ probe.options = ExampleOptions
                => probe.out \in
                     {<<"&", "a", "=", "1", "+", "2", "&", "b", "=", "x">>,
                      <<"&", "b", "=", "x", "&", "a", "=", "1", "+", "2">>}

C12_Witness ==
    /\ probe.fn = "fmtOptions"
    /\ probe.options = ExampleOptions
    /\ probe.out = <<"&", "b", "=", "x", "&", "a", "=", "1", "+", "2">>

(***************************************************************************)
(* C17: with auto-retry enabled the loops have no cap on attempts.  After  *)
(* any number of sends a call is still in its loop exactly when the        *)
(* response to its last send had a retried status (429, and 202 too for    *)
(* request) while the flag was set, and it has returned exactly when that  *)
(* response had another status or the send failed; every response before   *)
(* the last was a retried one.  Under a transport that gives an ending     *)
(* answer, a call in its loop eventually returns.                          *)
(***************************************************************************)
Retried(kind, e) ==
    /\ ~e.fail
    /\ e.autoRetry
    /\ \/ e.status = StatusTooManyRequests
       \/ kind = "request" /\ e.status = StatusAccepted

C17_LoopState ==
    \A p \in Procs :
        (InCall(p) /\ Sent(p) > 0)
           => /\ \A i \in 1..(Sent(p) - 1) : Retried(call[p].kind, call[p].log[i])
              /\ Retried(call[p].kind, Last(p)) <=> call[p].pc \in {"sleep", "send"}
              /\ ~Retried(call[p].kind, Last(p)) <=> call[p].pc = "done"

C17_UnboundedRetry ==
    /\ []C17_LoopState
    /\ \A p \in Procs :
          (call[p].pc \in {"send", "sleep"}) ~> (call[p].pc = "done")

C17_Witness ==
    \E p \in Procs :
        /\ call[p].pc = "done"
        /\ Sent(p) = MaxSends
        /\ \A i \in 1..(MaxSends - 1) : Answered(p, i, StatusTooManyRequests)
        /\ Answered(p, MaxSends, StatusOK)
        /\ call[p].err = NoErr

(***************************************************************************)
(* C15: with context propagation enabled, each call is sent with a         *)
(* cancellable context of its own (whose cancellation then ends that call  *)
(* and no other).  A context is cancellable when it is not the background  *)
(* context, which is never cancelled and has no deadline.                  *)
(***************************************************************************)
Cancellable(ctx) == ctx \notin {"none", "Background"}

C15_CancellableContext ==
    \A p \in Procs :
        (c.withContext /\ call[p].pc \in {"send", "sleep"})
           => /\ Cancellable(call[p].req.ctx)
              /\ \A q \in Procs \ {p} :
                    call[q].pc \in {"send", "sleep"}
                       => call[q].req.ctx # call[p].req.ctx

(***************************************************************************)
(* C20: two calls running concurrently on one handle, with no setter       *)
(* called meanwhile, never both access a handle field with one of them     *)
(* writing it, also on a fresh handle whose timeout is still unset.        *)
(***************************************************************************)
C20_NoConcurrentWrite ==
    \A p, q \in Procs :
        p # q => Writes(call[p].pc) \cap
                    (Reads(call[q].pc) \cup Writes(call[q].pc)) = {}

====
